---- MODULE Spec2Model ----
(***************************************************************************)
(* Model of outlook-round-robin (src/outlook_round_robin.py, settings.py): *)
(* the poll loop of __main__, check_messages, the index file kept by       *)
(* store_index / load_index, the token renewal, and the mailbox the REST   *)
(* calls act on.  The cursor is 0-based as in the Python source; TLA+      *)
(* sequences are 1-based, so FORWARD_TO[i + 1] is Python's FORWARD_TO[i].  *)
(***************************************************************************)
EXTENDS Integers, Sequences, FiniteSets

\* ------------------------------------------------------------------ bounds
MaxRecipients == 2      \* FORWARD_TO has 1..MaxRecipients entries
MaxMsgs == 3            \* messages that ever arrive in the watched folder
MaxTime == 300          \* the clock stops the model at this many seconds
MaxRestarts == 1        \* times the process is started again after it ended

\* ------------------------------------------------------------ configuration
POLL_INTERVAL == 5
LOAD_MESSAGE_COUNT == 250
RenewMargin == 300
AUTO_REPLY_EXCLUSIONS == {"fry"}
Names == <<"bender", "zoidberg", "leela", "amy", "hermes">>
ExpiresIn == {300, 900}         \* lifetimes (seconds) the provider may report
None == "None"
NoToken == "unbound"            \* access_token before line 263 first binds it
NoTime == 0 - 1                 \* renew_token_at when no process is there

VARIABLES
    FORWARD_TO,       \* settings.FORWARD_TO, fixed for the run
    AUTO_REPLY,       \* settings.AUTO_REPLY, fixed for the run
    now,              \* datetime.now(), seconds
    indexFile,        \* the file at INDEX_FILE_PATH: [exists, data, by], by
                      \* holding the index whose store_index call wrote the
                      \* data, if one did
    unread,           \* ids of the unread messages of the watched folder
    arrived,          \* number of messages that arrived so far
    pc,               \* position of the process in __main__ / check_messages
    renew_token_at,
    access_token,
    start_index,
    stop_index,
    messages,         \* the batch load_messages returned
    pos,              \* 1-based position of the for loop in messages
    last_call,        \* the most recent call of the current cycle
    forward_calls,    \* message -> the forward_message call made for it in
                      \* the current cycle
    mark_calls,       \* message -> result of the mark_message_as_read call
                      \* made for it in the current cycle
    reply_calls,      \* message -> addressee of the send_reply call made
                      \* for it in the current cycle
    lossless,         \* no forward, index read or index write failed so far,
                      \* and the process never ended in the middle of a cycle
    lead,             \* recipient -> successful forwards it got so far, less
                      \* those of the least served recipient; kept while
                      \* lossless holds, all 0 afterwards
    unmarked,         \* messages forwarded with success whose mark-read failed
    forwarded,        \* messages a forward_message call has succeeded for
                      \* and that were not marked read since
    restarts

vars == <<FORWARD_TO, AUTO_REPLY, now, indexFile, unread, arrived, pc,
          renew_token_at, access_token, start_index, stop_index, messages,
          pos, last_call, forward_calls, mark_calls, reply_calls, lossless,
          lead, unmarked, forwarded, restarts>>

config == <<FORWARD_TO, AUTO_REPLY>>
ghosts == <<lossless, lead, unmarked, forwarded>>
mailbox == <<unread, arrived>>
locals == <<start_index, stop_index, messages, pos>>
calls == <<last_call, forward_calls, mark_calls, reply_calls>>

\* ------------------------------------------------- Python's int <-> str
Digits == <<"0", "1", "2", "3", "4", "5", "6", "7", "8", "9">>
Whitespace == {" ", "\n", "\t"}

RECURSIVE NatToStr(_)
NatToStr(n) ==
    IF n < 10 THEN <<Digits[n + 1]>>
    ELSE NatToStr(n \div 10) \o <<Digits[(n % 10) + 1]>>

\* mutant of FormatIndex: the sign is lost
FormatIndexUnsigned(index) ==
    NatToStr(IF index < 0 THEN 0 - index ELSE index) \o <<"\n">>

\* '{}\n'.format(index)
FormatIndex(index) ==
    (IF index < 0 THEN <<"-">> ELSE <<>>)
        \o NatToStr(IF index < 0 THEN 0 - index ELSE index) \o <<"\n">>

\* data_file.readline(): up to and including the first newline
RECURSIVE ReadLine(_)
ReadLine(data) ==
    IF data = <<>> THEN <<>>
    ELSE IF Head(data) = "\n" THEN <<"\n">>
    ELSE <<Head(data)>> \o ReadLine(Tail(data))

RECURSIVE LStrip(_)
LStrip(s) ==
    IF s # <<>> /\ Head(s) \in Whitespace THEN LStrip(Tail(s)) ELSE s

RECURSIVE RStrip(_)
RStrip(s) ==
    IF s # <<>> /\ s[Len(s)] \in Whitespace
    THEN RStrip(SubSeq(s, 1, Len(s) - 1)) ELSE s

DigitValue(c) == (CHOOSE d \in 1..10 : Digits[d] = c) - 1
IsDigits(s) ==
    /\ s # <<>>
    /\ \A i \in 1..Len(s) : \E d \in 1..10 : Digits[d] = s[i]

RECURSIVE StrToNat(_)
StrToNat(s) ==
    IF s = <<>> THEN 0
    ELSE 10 * StrToNat(SubSeq(s, 1, Len(s) - 1)) + DigitValue(s[Len(s)])

\* int(text): surrounding whitespace is dropped, one optional sign, then
\* decimal digits; anything else raises ValueError
Unsigned(t) == IF t # <<>> /\ Head(t) \in {"-", "+"} THEN Tail(t) ELSE t
IntParses(text) == IsDigits(Unsigned(RStrip(LStrip(text))))
IntOf(text) ==
    LET t == RStrip(LStrip(text))
    IN  IF Head(t) = "-" THEN 0 - StrToNat(Unsigned(t)) ELSE StrToNat(Unsigned(t))

\* ------------------------------------------------------------ the index file
Missing == [exists |-> FALSE, data |-> <<>>, by |-> {}]
FileWith(data) == [exists |-> TRUE, data |-> data, by |-> {}]

\* mutant of StoredFile: nothing is ever written
StoredFileNever(file, index, outcome) == file

\* store_index(index): the outcome is what the file system does with the
\* open(.., 'w') and the write; every exception is swallowed
StoredFile(file, index, outcome) ==
    CASE outcome = "ok" -> [FileWith(FormatIndex(index)) EXCEPT !.by = {index}]
      [] outcome = "open_error" -> file
      [] outcome = "write_error" -> FileWith(<<>>)

\* mutant of LoadedIndex: the file is never consulted
LoadedIndexZero(file, readable) == 0

\* load_index(): 0 on any exception (no file, unreadable, not an integer)
LoadedIndex(file, readable) ==
    IF file.exists /\ readable /\ IntParses(ReadLine(file.data))
    THEN IntOf(ReadLine(file.data))
    ELSE 0

\* ------------------------------------------------------ Python list indexing
\* mutant of IndexInRange: no indexing from the end of the list
IndexInRangeFromStart(list, i) == i >= 0 /\ i < Len(list)

\* line 218: settings.FORWARD_TO[i] raises IndexError outside [-len, len)
IndexInRange(list, i) == i >= 0 - Len(list) /\ i < Len(list)
ListItem(list, i) == IF i < 0 THEN list[Len(list) + i + 1] ELSE list[i + 1]

\* --------------------------------------------------------------- the mailbox
\* message['from']['emailAddress']['address'], None when the key is absent
From(m) ==
    CASE m % 3 = 2 -> "roberto"
      [] m % 3 = 1 -> "fry"
      [] OTHER -> None

\* the unread messages of the folder, newest first, at most `top` of them
RECURSIVE Newest(_, _)
Newest(ids, top) ==
    IF ids = {} \/ top = 0 THEN <<>>
    ELSE LET m == CHOOSE x \in ids : \A y \in ids : y <= x
         IN  <<m>> \o Newest(ids \ {m}, top - 1)

\* one more forward to `recipient`, then every count less the smallest
Counted(count, recipient) ==
    LET c == [i \in DOMAIN count |->
                 IF FORWARD_TO[i] = recipient THEN count[i] + 1 ELSE count[i]]
        least == CHOOSE x \in {c[i] : i \in DOMAIN c} :
                     \A i \in DOMAIN c : x <= c[i]
    IN  [i \in DOMAIN c |-> c[i] - least]

\* what an outcome does to lossless, and to lead once lossless is gone
Outcome(ok) ==
    /\ lossless' = (lossless /\ ok)
    /\ lead' = IF lossless /\ ok THEN lead ELSE [i \in DOMAIN lead |-> 0]

\* a call as it is recorded: the message, the addressee, the result, and
\* the cursor and the token at the time of the call
Call(op, msg, to, ok) ==
    [op |-> op, msg |-> msg, to |-> to, ok |-> ok,
     idx |-> stop_index, token |-> access_token]
NoCall == [op |-> "none", msg |-> 0, to |-> None, ok |-> TRUE,
           idx |-> 0, token |-> NoToken]
Empty == [m \in {} |-> 0]
With(f, m, v) == [x \in DOMAIN f \cup {m} |-> IF x = m THEN v ELSE f[x]]
NoCalls ==
    /\ last_call' = NoCall
    /\ forward_calls' = Empty
    /\ mark_calls' = Empty
    /\ reply_calls' = Empty

\* ---------------------------------------------------------------------- Init
InitialFiles ==
    {Missing, FileWith(<<"-", "1", "\n">>), FileWith(<<"-", "1", "2", "\n">>),
     FileWith(NatToStr(MaxRecipients) \o <<"\n">>)}

Init ==
    /\ \E n \in 1..MaxRecipients : FORWARD_TO = SubSeq(Names, 1, n)
    /\ AUTO_REPLY \in BOOLEAN
    /\ now = 0
    /\ indexFile \in InitialFiles
    /\ unread = {}
    /\ arrived = 0
    /\ pc = "top"
    /\ renew_token_at = 0
    /\ access_token = NoToken
    /\ start_index = 0
    /\ stop_index = 0
    /\ messages = <<>>
    /\ pos = 1
    /\ last_call = NoCall
    /\ forward_calls = Empty
    /\ mark_calls = Empty
    /\ reply_calls = Empty
    /\ lossless = TRUE
    /\ lead = [i \in 1..Len(FORWARD_TO) |-> 0]
    /\ unmarked = {}
    /\ forwarded = {}
    /\ restarts = 0

\* ------------------------------------------------------------ pure pieces
\* mutant of RenewalTime: no safety margin
RenewalTimeNoMargin(t, expires_seconds) == t + expires_seconds

\* line 77: datetime.now() + timedelta(seconds=expires_seconds - 300)
RenewalTime(t, expires_seconds) == t + (expires_seconds - RenewMargin)

\* mutant of RenewalDue: the comparison made strict
RenewalDueStrict(renewAt, t) == renewAt < t

\* line 261: renew_token_at <= datetime.now()
RenewalDue(renewAt, t) == renewAt <= t

\* mutant of NextIndex: the wrap-around left out
NextIndexNoWrap(index, list) == index + 1

\* line 229
NextIndex(index, list) == (index + 1) % Len(list)

\* mutant of AdvanceAfterMark: the cursor waits for the mark-read to succeed
AdvanceOnlyIfMarked(mark_ok) == mark_ok

\* lines 228-229: the result of mark_message_as_read is dropped, the cursor
\* advances whatever it was
AdvanceAfterMark(mark_ok) == TRUE

\* mutant of ShouldReply: the exclusion list not consulted
ShouldReplyNoExclusions(sender_email) ==
    /\ AUTO_REPLY
    /\ sender_email # None

\* line 231
ShouldReply(sender_email) ==
    /\ AUTO_REPLY
    /\ sender_email # None
    /\ sender_email \notin AUTO_REPLY_EXCLUSIONS

Running == {"top", "load_index", "load_messages", "forward", "mark_read",
            "send_reply", "store_index", "sleep"}
Ended == {"token_error", "sigint", "IndexError"}
BetweenCycles == {"top", "sleep"}

\* mutant of LastMessage: the loop left after a message whose forward failed
LastMessageOrFailure ==
    pos + 1 > Len(messages) \/ (pc = "forward" /\ pos > 1)

\* line 234 and the loop header: the next message, or the return of line 236
LastMessage == pos + 1 > Len(messages)
AfterMessage ==
    /\ pc' = IF LastMessage THEN "store_index" ELSE "forward"
    /\ pos' = pos + 1

\* the process is gone, and its memory with it
NoProcess ==
    /\ renew_token_at' = NoTime
    /\ access_token' = NoToken
    /\ start_index' = 0
    /\ stop_index' = 0
    /\ messages' = <<>>
    /\ pos' = 1
    /\ NoCalls

\* mutant of AfterTokenRequest: got_token not looked at
AfterTokenRequestGoesOn(got_token) == "load_index"

\* lines 265-266: exit() unless the token was obtained
AfterTokenRequest(got_token) ==
    IF got_token THEN "load_index" ELSE "token_error"

\* mutant of MarkDue: the branch taken when forward_message failed
MarkDueOnFailure(forward_ok) == ~forward_ok

\* mutant of MarkDue: the result of forward_message not looked at
MarkDueAlways(forward_ok) == TRUE

\* line 227: the branch taken on the result of forward_message
MarkDue(forward_ok) == forward_ok

\* mutant of FetchResult: the messages handed on although the fetch failed
FetchResultAnyway(got_messages, ids) == Newest(ids, LOAD_MESSAGE_COUNT)

\* lines 191-197 and 209-210: the batch check_messages works on
FetchResult(got_messages, ids) ==
    IF got_messages THEN Newest(ids, LOAD_MESSAGE_COUNT) ELSE <<>>

\* mutant of CursorAtLoopStart: a failed fetch gives the cursor up
CursorAtLoopStartReset(start, got_messages) ==
    IF got_messages THEN start ELSE 0

\* lines 209-215: start_index is returned as it is after a failed fetch,
\* and is where stop_index starts otherwise
CursorAtLoopStart(start, got_messages) == start

\* mutant of CursorAfterReply: a failed reply takes the advance back
CursorAfterReplyUndone(index, reply_ok) ==
    IF reply_ok THEN index ELSE index - 1

\* lines 231-236: the result of send_reply is not looked at, the cursor of
\* line 229 stands
CursorAfterReply(index, reply_ok) == index

\* mutant of FileAfterInterrupt: a handler that saves the cursor on its way
\* out
FileAfterInterruptSaved(file, index) == StoredFile(file, index, "ok")

\* lines 240-244: exit_handler prints and exits, store_index is not called
FileAfterInterrupt(file, index) == file

\* ------------------------------------------------------------------ actions
\* lines 261-266: the token is due; exit() when the request fails
RenewToken ==
    /\ pc = "top"
    /\ RenewalDue(renew_token_at, now)
    /\ \E ok \in BOOLEAN, expires_in \in ExpiresIn :
        /\ (~ok) => expires_in = CHOOSE e \in ExpiresIn : TRUE
        /\ pc' = AfterTokenRequest(ok)
        /\ IF pc' \in Ended
           THEN NoProcess
           ELSE /\ access_token' = IF ok THEN "access_token" ELSE ""
                /\ renew_token_at' = IF ok THEN RenewalTime(now, expires_in)
                                     ELSE None
                /\ last_call' = Call("token", 0, None, ok)
                /\ UNCHANGED <<locals, forward_calls, mark_calls, reply_calls>>
    /\ UNCHANGED <<config, now, indexFile, mailbox, ghosts, restarts>>

\* line 261, condition false: the token is kept
KeepToken ==
    /\ pc = "top"
    /\ ~RenewalDue(renew_token_at, now)
    /\ pc' = "load_index"
    /\ UNCHANGED <<config, now, indexFile, mailbox, locals, calls, ghosts,
                   restarts, renew_token_at, access_token>>

\* line 270
LoadIndex ==
    /\ pc = "load_index"
    /\ \E readable \in BOOLEAN :
        /\ readable \/ indexFile.exists
        /\ start_index' = LoadedIndex(indexFile, readable)
        /\ last_call' = Call("load_index", 0, None, readable)
        /\ Outcome(readable)
    /\ pc' = "load_messages"
    /\ UNCHANGED <<config, now, indexFile, mailbox, renew_token_at,
                   access_token, stop_index, messages, pos, forward_calls,
                   mark_calls, reply_calls, unmarked, forwarded, restarts>>

\* lines 207-215; a failed fetch returns start_index at line 210, an empty
\* batch falls through the loop to line 236
LoadMessages ==
    /\ pc = "load_messages"
    /\ \E got_messages \in BOOLEAN :
        /\ messages' = FetchResult(got_messages, unread)
        /\ last_call' = Call("list", 0, None, got_messages)
        /\ pc' = IF messages' # <<>> THEN "forward" ELSE "store_index"
        /\ stop_index' = CursorAtLoopStart(start_index, got_messages)
    /\ pos' = 1
    /\ UNCHANGED <<config, now, indexFile, mailbox, renew_token_at,
                   access_token, start_index, forward_calls, mark_calls,
                   reply_calls, ghosts, restarts>>

\* line 218 with a cursor outside the list: IndexError, nothing catches it
SelectRecipientFails ==
    /\ pc = "forward"
    /\ ~IndexInRange(FORWARD_TO, stop_index)
    /\ pc' = "IndexError"
    /\ NoProcess
    /\ Outcome(FALSE)
    /\ UNCHANGED <<config, now, indexFile, mailbox, unmarked, forwarded, restarts>>

\* lines 218-227 (and 234 when the forward fails)
ForwardMessage ==
    /\ pc = "forward"
    /\ IndexInRange(FORWARD_TO, stop_index)
    /\ LET forward_email == ListItem(FORWARD_TO, stop_index)
           message == messages[pos]
       IN  \E ok \in BOOLEAN :
            /\ last_call' = Call("forward", message, forward_email, ok)
            /\ forward_calls' = With(forward_calls, message, last_call')
            /\ forwarded' = IF ok THEN forwarded \cup {message} ELSE forwarded
            /\ lossless' = (lossless /\ ok)
            /\ lead' = IF ok /\ lossless
                       THEN Counted(lead, forward_email)
                       ELSE [i \in DOMAIN lead |-> 0]
            /\ IF MarkDue(ok)
               THEN pc' = "mark_read" /\ UNCHANGED pos
               ELSE AfterMessage
    /\ UNCHANGED <<config, now, indexFile, mailbox, renew_token_at,
                   access_token, start_index, stop_index, messages, mark_calls,
                   reply_calls, unmarked, restarts>>

\* lines 228-231 (and 234 when no reply is due)
MarkRead ==
    /\ pc = "mark_read"
    /\ LET message == messages[pos]
       IN  /\ \E ok \in BOOLEAN :
                /\ last_call' = Call("mark_read", message, None, ok)
                /\ mark_calls' = With(mark_calls, message, ok)
                /\ unread' = IF ok THEN unread \ {message} ELSE unread
                /\ unmarked' = IF ok THEN unmarked \ {message}
                               ELSE unmarked \cup {message}
                /\ stop_index' = IF AdvanceAfterMark(ok)
                                 THEN NextIndex(stop_index, FORWARD_TO)
                                 ELSE stop_index
           /\ IF ShouldReply(From(message))
              THEN pc' = "send_reply" /\ UNCHANGED pos
              ELSE AfterMessage
    /\ UNCHANGED <<config, now, indexFile, arrived, renew_token_at,
                   access_token, start_index, messages, forward_calls,
                   reply_calls, lossless, lead, forwarded, restarts>>

\* lines 232-234
SendReply ==
    /\ pc = "send_reply"
    /\ \E ok \in BOOLEAN :
        /\ last_call' = Call("reply", messages[pos], From(messages[pos]), ok)
        /\ stop_index' = CursorAfterReply(stop_index, ok)
    /\ reply_calls' = With(reply_calls, messages[pos], From(messages[pos]))
    /\ AfterMessage
    /\ UNCHANGED <<config, now, indexFile, mailbox, renew_token_at,
                   access_token, start_index, messages, forward_calls,
                   mark_calls, ghosts, restarts>>

\* line 272
StoreIndex ==
    /\ pc = "store_index"
    /\ \E outcome \in {"ok", "open_error", "write_error"} :
        /\ indexFile' = StoredFile(indexFile, stop_index, outcome)
        /\ Outcome(outcome = "ok")
    /\ pc' = "sleep"
    /\ NoCalls
    \* lines 270-271 bind both anew before either is read again, and the
    \* locals of check_messages are gone since line 271
    /\ start_index' = 0
    /\ stop_index' = 0
    /\ messages' = <<>>
    /\ pos' = 1
    /\ UNCHANGED <<config, now, mailbox, renew_token_at, access_token,
                   unmarked, forwarded, restarts>>

\* line 274
Sleep ==
    /\ pc = "sleep"
    /\ now + POLL_INTERVAL * 60 <= MaxTime
    /\ now' = now + POLL_INTERVAL * 60
    /\ pc' = "top"
    /\ UNCHANGED <<config, indexFile, mailbox, renew_token_at, access_token,
                   locals, calls, ghosts, restarts>>

\* lines 240-244: SIGINT at any point of the loop ends the process
Interrupt ==
    /\ pc \in Running
    /\ pc' = "sigint"
    /\ indexFile' = FileAfterInterrupt(indexFile, stop_index)
    /\ NoProcess
    /\ Outcome(pc \in BetweenCycles)
    /\ UNCHANGED <<config, now, mailbox, unmarked, forwarded, restarts>>

\* SIGINT while load_index is inside its try block: exit(0) of line 242
\* raises SystemExit there, the bare except of line 54 catches it and
\* load_index returns 0; the process goes on
InterruptLoadIndex ==
    /\ pc = "load_index"
    /\ start_index' = 0
    /\ last_call' = Call("sigint", 0, None, FALSE)
    /\ Outcome(FALSE)
    /\ pc' = "load_messages"
    /\ UNCHANGED <<config, now, indexFile, mailbox, renew_token_at,
                   access_token, stop_index, messages, pos, forward_calls,
                   mark_calls, reply_calls, unmarked, forwarded, restarts>>

\* SIGINT while store_index is inside its try block: the bare except of
\* line 41 catches the SystemExit, whether it came before the open, before
\* the write or after it; the process goes on to its sleep
InterruptStoreIndex ==
    /\ pc = "store_index"
    /\ \E outcome \in {"ok", "open_error", "write_error"} :
        indexFile' = StoredFile(indexFile, stop_index, outcome)
    /\ Outcome(FALSE)
    /\ pc' = "sleep"
    /\ NoCalls
    /\ start_index' = 0
    /\ stop_index' = 0
    /\ messages' = <<>>
    /\ pos' = 1
    /\ UNCHANGED <<config, now, mailbox, renew_token_at, access_token,
                   unmarked, forwarded, restarts>>

\* the script is started again: lines 244-258 run anew, the file and the
\* mailbox are what the previous process left
Restart ==
    /\ pc \in Ended
    /\ restarts < MaxRestarts
    /\ restarts' = restarts + 1
    /\ pc' = "top"
    /\ renew_token_at' = now
    /\ UNCHANGED <<config, now, indexFile, mailbox, ghosts, access_token,
                   locals, calls>>

\* a new message is delivered to the watched folder
Arrive ==
    /\ pc = "load_messages"
    /\ arrived < MaxMsgs
    /\ arrived' = arrived + 1
    /\ unread' = unread \cup {arrived + 1}
    /\ UNCHANGED <<config, now, indexFile, pc, renew_token_at, access_token,
                   locals, calls, ghosts, restarts>>

Next ==
    \/ RenewToken
    \/ KeepToken
    \/ LoadIndex
    \/ LoadMessages
    \/ SelectRecipientFails
    \/ ForwardMessage
    \/ MarkRead
    \/ SendReply
    \/ StoreIndex
    \/ Sleep
    \/ Interrupt
    \/ InterruptLoadIndex
    \/ InterruptStoreIndex
    \/ Restart
    \/ Arrive

Spec == Init /\ [][Next]_vars

\* the steps of the loop of lines 260-274: the process is single-threaded
\* and every call it makes returns, so a step that is due is taken (each
\* of them moves pc)
LoopStep ==
    \/ RenewToken
    \/ KeepToken
    \/ LoadIndex
    \/ LoadMessages
    \/ SelectRecipientFails
    \/ ForwardMessage
    \/ MarkRead
    \/ SendReply
    \/ StoreIndex
    \/ Sleep

FairSpec == Spec /\ WF_pc(LoopStep)

TypeOK ==
    /\ pc \in Running \cup Ended
    /\ now \in 0..MaxTime
    /\ unread \subseteq 1..MaxMsgs

\* ------------------------------------------------------------- properties
N == Len(FORWARD_TO)
Batch == {messages[k] : k \in DOMAIN messages}
PosOf(m) == CHOOSE k \in DOMAIN messages : messages[k] = m
InLoop == {"forward", "mark_read", "send_reply"}
\* check_messages has returned and line 272 is next
Returned == pc = "store_index"
FetchFailed == last_call.op = "list" /\ ~last_call.ok
AllForwardsSucceeded == \A m \in DOMAIN forward_calls : forward_calls[m].ok
\* the loop has moved past message m
DoneWith(m) == PosOf(m) < pos
\* the cursor the iteration of messages[k] left: the one the next forward
\* was made with, or the current one when no forward followed
CursorAfter(k) ==
    IF k < Len(messages) /\ messages[k + 1] \in DOMAIN forward_calls
    THEN forward_calls[messages[k + 1]].idx
    ELSE stop_index
ReplyDue(m) ==
    AUTO_REPLY /\ From(m) # None /\ From(m) \notin AUTO_REPLY_EXCLUSIONS

\* C1: with a start cursor C in [0, N) and every forward succeeding, the
\* i-th message of the batch (from 0) goes to FORWARD_TO[(C + i) mod N], and
\* check_messages returns (C + M) mod N for a batch of M messages.
C1_RoundRobin ==
    (start_index \in 0..(N - 1) /\ AllForwardsSucceeded) =>
        /\ \A k \in DOMAIN messages :
               messages[k] \in DOMAIN forward_calls =>
                   forward_calls[messages[k]].to
                       = FORWARD_TO[((start_index + (k - 1)) % N) + 1]
        /\ (Returned /\ ~FetchFailed) =>
               /\ DOMAIN forward_calls = Batch
               /\ stop_index = (start_index + Len(messages)) % N
C1_Witness ==
    /\ Returned
    /\ N = 2
    /\ start_index = 1
    /\ Len(messages) = 3
    /\ DOMAIN forward_calls = Batch
    /\ AllForwardsSucceeded

\* C2: a message whose forward failed is not marked read, leaves the cursor
\* where it was, and the next message is attempted with the same cursor, so
\* against the same recipient.
C2_FailedForward ==
    \A m \in DOMAIN forward_calls :
        ~forward_calls[m].ok =>
            /\ m \notin DOMAIN mark_calls
            /\ m \in unread
            /\ DoneWith(m)
            /\ CursorAfter(PosOf(m)) = forward_calls[m].idx
            /\ LET k == PosOf(m)
               IN  (k < Len(messages)
                    /\ messages[k + 1] \in DOMAIN forward_calls) =>
                       forward_calls[messages[k + 1]].to
                           = forward_calls[m].to
C2_Witness ==
    /\ N = 2
    /\ \E k \in DOMAIN messages :
        /\ k < Len(messages)
        /\ messages[k] \in DOMAIN forward_calls
        /\ ~forward_calls[messages[k]].ok
        /\ forward_calls[messages[k]].idx = 1
        /\ messages[k + 1] \in DOMAIN forward_calls

\* C3: when the fetch of unread messages fails, check_messages returns the
\* start cursor and has made no forward, mark-read or reply call.
C3_FetchFailed ==
    FetchFailed =>
        /\ Returned
        /\ stop_index = start_index
        /\ forward_calls = Empty
        /\ mark_calls = Empty
        /\ reply_calls = Empty
C3_Witness ==
    /\ FetchFailed
    /\ Returned
    /\ unread # {}
    /\ start_index = 1

\* C4: the auto-reply call is made for a message exactly when AUTO_REPLY is
\* on, the message has a sender, the sender is not in AUTO_REPLY_EXCLUSIONS
\* and the forward succeeded; it goes to the sender.
C4_AutoReply ==
    /\ \A m \in DOMAIN forward_calls :
           DoneWith(m) =>
               (m \in DOMAIN reply_calls
                   <=> (ReplyDue(m) /\ forward_calls[m].ok))
    /\ \A m \in DOMAIN reply_calls :
           /\ reply_calls[m] = From(m)
           /\ m \in DOMAIN forward_calls
    /\ DOMAIN reply_calls \subseteq DOMAIN mark_calls
C4_Witness ==
    /\ Returned
    /\ AUTO_REPLY
    /\ Batch = {1, 2, 3}
    /\ AllForwardsSucceeded
    /\ DOMAIN reply_calls = {2}
    /\ DOMAIN forward_calls = {1, 2, 3}

\* C5: whatever integer the index file holds, the cursor used to select a
\* recipient is in [0, N).
C5_CursorInRange == pc = "forward" => stop_index \in 0..(N - 1)

\* load_index on a missing, unreadable or non-integer file returns 0
LoadsZeroOnBadFile ==
    (/\ last_call.op = "load_index"
     /\ \/ ~indexFile.exists
        \/ ~last_call.ok
        \/ ~IntParses(ReadLine(indexFile.data))) => start_index = 0

\* C6 as stated: load_index() after store_index(v) returns v for every
\* integer v, whatever became of the write.
C6_StoreThenLoad ==
    /\ [][(pc = "store_index" /\ pc' = "sleep") =>
              LoadedIndex(indexFile', TRUE) = stop_index]_vars
    /\ []LoadsZeroOnBadFile

\* C6: load_index() reading a file that a store_index(v) wrote returns v,
\* for negative v too; on a missing, unreadable or non-integer file it
\* returns 0.
C6_StoreThenLoadWritten ==
    /\ (last_call.op = "load_index" /\ last_call.ok) =>
           \A v \in indexFile.by : start_index = v
    /\ \A v \in indexFile.by : LoadedIndex(indexFile, TRUE) = v
    /\ LoadsZeroOnBadFile
C6_Witness ==
    /\ last_call.op = "load_index"
    /\ last_call.ok
    /\ indexFile.by = {0 - 12}
    /\ start_index = 0 - 12
    /\ restarts = 1

\* C7: when mark-read fails after a successful forward the cursor still
\* advances, the auto-reply is still due and made, and the message stays
\* unread, so a later cycle that fetches messages has it in its batch and
\* forwards it again; within the cycle nothing is tried a second time.
C7_MarkReadFailed ==
    /\ \A m \in DOMAIN mark_calls :
           ~mark_calls[m] =>
               /\ m \in DOMAIN forward_calls
               /\ forward_calls[m].ok
               /\ CursorAfter(PosOf(m))
                      = (forward_calls[m].idx + 1) % N
               /\ ReplyDue(m) =>
                      \/ m \in DOMAIN reply_calls
                      \/ pc = "send_reply" /\ messages[pos] = m
               /\ m \in unread
               /\ m \in unmarked
    /\ unmarked \subseteq unread
    /\ pc \in InLoop => unmarked \subseteq Batch
    /\ pc = "forward" => messages[pos] \notin DOMAIN forward_calls
    /\ pc = "mark_read" => messages[pos] \notin DOMAIN mark_calls
C7_Witness ==
    /\ pc = "mark_read"
    /\ messages[pos] \in unmarked
    /\ forward_calls[messages[pos]].ok
    /\ now = 300

\* C8: as long as every forward and every read and write of the index file
\* has succeeded and no cycle was cut short, the numbers of messages
\* forwarded to any two recipients differ by at most one, across cycles and
\* restarts.
C8_Even == lossless => \A i \in DOMAIN lead : lead[i] <= 1
C8_Witness ==
    /\ lossless
    /\ N = 2
    /\ restarts = 1
    /\ now = 300
    /\ Cardinality(DOMAIN forward_calls) = 2
    /\ \E i \in DOMAIN lead : lead[i] = 1

MailboxOps == {"list", "forward", "mark_read", "reply"}

\* C9: when the token cannot be acquired the process terminates without a
\* mailbox call or an index write, and no mailbox call is made by a process
\* that has not acquired a token.
C9_TokenFailure ==
    /\ [](last_call.op \in MailboxOps => last_call.token = "access_token")
    /\ [](pc \in Running \ {"top"} => access_token = "access_token")
    /\ [](pc = "token_error" => last_call = NoCall)
    /\ [][pc = "token_error" => UNCHANGED <<indexFile, unread, calls>>]_vars
    /\ [][pc' = "token_error" => UNCHANGED <<indexFile, unread, calls>>]_vars
C9_Witness ==
    /\ pc = "token_error"
    /\ now = 300
    /\ unread # {}
    /\ restarts = 0

\* C10: the token is requested at the start of a cycle, before any call of
\* that cycle, exactly when the renewal time has been reached; otherwise
\* the token and the renewal time are kept, and no token request is made
\* anywhere else.
C10_Renewal ==
    /\ [](pc = "top" => (last_call = NoCall /\ forward_calls = Empty))
    /\ [][(pc = "top" /\ pc' \notin {"top", "sigint"}) =>
              IF renew_token_at <= now
              THEN \/ pc' = "token_error"
                   \/ /\ pc' = "load_index"
                      /\ last_call'.op = "token"
                      /\ last_call'.ok
                      /\ access_token' = "access_token"
              ELSE /\ pc' = "load_index"
                   /\ last_call' = NoCall
                   /\ UNCHANGED <<access_token, renew_token_at>>]_vars
    /\ [][(last_call'.op = "token" /\ last_call' # last_call) =>
              pc = "top"]_vars
C10_Witness ==
    /\ pc = "load_index"
    /\ now = 300
    /\ renew_token_at = 600
    /\ access_token = "access_token"
    /\ last_call = NoCall

\* C11: a failed auto-reply changes nothing else: the reply step leaves the
\* forward calls, the mark-read calls, the cursor, the mailbox and the index
\* file as they were and goes on to the next message or the return,
\* whatever its result; after a failed reply the cursor is the one the
\* forward and the mark-read of the message left.
C11_ReplyFrame ==
    /\ [][(pc = "send_reply" /\ pc' # "sigint") =>
              /\ last_call'.op = "reply"
              /\ UNCHANGED <<forward_calls, mark_calls, stop_index,
                             start_index, messages, unread, unmarked,
                             indexFile, lossless, lead>>
              /\ pos' = pos + 1
              /\ pc' = IF pos < Len(messages) THEN "forward"
                       ELSE "store_index"]_vars
    /\ []((last_call.op = "reply" /\ ~last_call.ok) =>
              /\ last_call.msg \in DOMAIN mark_calls
              /\ forward_calls[last_call.msg].ok
              /\ stop_index = (forward_calls[last_call.msg].idx + 1) % N
              /\ last_call.idx = stop_index)
C11_Witness ==
    /\ last_call.op = "reply"
    /\ ~last_call.ok
    /\ pc = "forward"
    /\ N = 2
    /\ stop_index = 0
    /\ ~mark_calls[last_call.msg]

InCycle == {"load_messages"} \cup InLoop

Stopped == pc \in {"sigint", "token_error"}
\* a fetch has been made in a cycle after the first
FetchedLater == now > 0 /\ last_call.op = "list"

\* C13 as stated: after a failed fetch the next cycle starts from the cursor
\* this one started from, whatever becomes of the store_index and the
\* load_index in between.
C13_SameCursorAnyway ==
    [][(pc = "store_index" /\ FetchFailed /\ pc' = "sleep") =>
           \A readable \in BOOLEAN :
               (readable \/ indexFile'.exists) =>
                   LoadedIndex(indexFile', readable) = start_index]_vars

\* C13: after a cycle whose fetch failed the process goes on: unless it is
\* interrupted or a token request fails, a fetch is made in a later cycle;
\* the failed cycle stores the cursor it started from, so the later cycle
\* starts from it when that write and the later read succeed.
C13_RetryAfterFailedFetch ==
    /\ (FetchFailed /\ now = 0) ~> (Stopped \/ FetchedLater)
    /\ [][(pc = "store_index" /\ FetchFailed /\ pc' = "sleep") =>
              \/ indexFile' \in {indexFile, FileWith(<<>>)}
              \/ LoadedIndex(indexFile', TRUE) = start_index]_vars
    /\ [][(pc = "store_index" /\ FetchFailed /\ pc' = "sleep"
           /\ lossless') =>
              LoadedIndex(indexFile', TRUE) = start_index]_vars
C13_Witness ==
    /\ FetchedLater
    /\ restarts = 0
    /\ start_index = 0 - 1
    /\ indexFile.by = {0 - 1}
    /\ pc = "store_index"

\* C14: an interrupt that was delivered has ended the process: no process
\* goes on past a SIGINT, at whatever step it came.
C14_InterruptEnds == last_call.op = "sigint" => pc = "sigint"

\* the cursors line 218 can select a recipient with
Selects == (0 - N)..(N - 1)
\* where the loop goes after the message at pos
Onward == IF pos < Len(messages) THEN "forward" ELSE "store_index"

Lifetimes == {0, 1, 299, 300, 301, 900, 3600}
IssueTimes == {0, POLL_INTERVAL * 60, 2 * POLL_INTERVAL * 60}

\* C16: a successful token request at time t with lifetime T gives success,
\* the token and the renewal time t + T - 300; with T <= 300 that time is
\* not later than t, and the next poll cycle requests a token again.
C16_RenewalTime ==
    /\ [](\A t \in IssueTimes, T \in Lifetimes :
              /\ RenewalTime(t, T) = t + T - 300
              /\ T <= 300 =>
                     /\ RenewalTime(t, T) <= t
                     /\ RenewalDue(RenewalTime(t, T), t + POLL_INTERVAL * 60))
    /\ [][(pc = "top" /\ pc' = "load_index" /\ last_call'.op = "token") =>
              /\ last_call'.ok
              /\ access_token' = "access_token"
              /\ \E T \in ExpiresIn : renew_token_at' = now + T - 300]_vars
    /\ [][(pc = "sleep" /\ pc' = "top") => now' = now + POLL_INTERVAL * 60]_vars
    /\ []((pc = "top" /\ renew_token_at + POLL_INTERVAL * 60 <= now) =>
              (ENABLED RenewToken /\ ~ENABLED KeepToken))
C16_Witness ==
    /\ pc = "load_index"
    /\ restarts = 0
    /\ now = POLL_INTERVAL * 60
    /\ last_call.op = "token"
    /\ renew_token_at \in {now, now + 600}

\* the forwards that succeeded for the messages before position k
SucceededBefore(k) ==
    Cardinality({j \in 1..(k - 1) :
                     /\ messages[j] \in DOMAIN forward_calls
                     /\ forward_calls[messages[j]].ok})
\* the recipient and the returned cursor by the arithmetic of the claim
ByArithmetic ==
    /\ \A k \in DOMAIN messages :
           messages[k] \in DOMAIN forward_calls =>
               forward_calls[messages[k]].to
                   = FORWARD_TO[((start_index + SucceededBefore(k)) % N) + 1]
    /\ (Returned /\ ~FetchFailed) =>
           stop_index
               = (start_index + SucceededBefore(Len(messages) + 1)) % N

\* C17: for every batch and every start cursor C, each message is attempted,
\* against recipient (C + s) mod N with s the forwards that succeeded before
\* it in the batch, and check_messages returns (C + S) mod N with S the
\* successful forwards of the batch.
C17_CursorArithmetic ==
    /\ ByArithmetic
    /\ pc = "forward" => ENABLED ForwardMessage

\* C17 for start cursors in [0, N): the arithmetic holds, every message is
\* attempted, and only the step after a successful forward moves the cursor.
C17_CursorArithmeticInRange ==
    /\ [](start_index \in 0..(N - 1) => C17_CursorArithmetic)
    /\ [][(pc \in InCycle /\ pc' \in InCycle \cup {"store_index"}
           /\ stop_index' # stop_index) =>
              \/ pc = "load_messages"
              \/ /\ pc = "mark_read"
                 /\ forward_calls[messages[pos]].ok
                 /\ stop_index' = (stop_index + 1) % N]_vars

\* the messages of the batch before the one at pos
Earlier == {messages[j] : j \in 1..(pos - 1)}
\* every call the loop makes for message m has been made
CallsComplete(m) ==
    /\ m \in DOMAIN forward_calls
    /\ forward_calls[m].ok => m \in DOMAIN mark_calls
    /\ (forward_calls[m].ok /\ ReplyDue(m)) => m \in DOMAIN reply_calls

\* C18: within a cycle a message's calls come in the order forward,
\* mark-read, auto-reply: the call before a mark-read is the successful
\* forward of the same message, the call before a reply is the mark-read of
\* the same message, and when a message is forwarded every call for the
\* messages before it in the batch has been made and none for it or a later
\* one.
C18_CallOrder ==
    /\ [](\A m \in DOMAIN mark_calls :
              m \in DOMAIN forward_calls /\ forward_calls[m].ok)
    /\ [](DOMAIN reply_calls \subseteq DOMAIN mark_calls)
    /\ [](pc = "forward" =>
              /\ DOMAIN forward_calls = Earlier
              /\ \A m \in Earlier : CallsComplete(m))
    /\ [](pc = "mark_read" =>
              /\ DOMAIN forward_calls = Earlier \cup {messages[pos]}
              /\ DOMAIN mark_calls \subseteq Earlier
              /\ forward_calls[messages[pos]].ok
              /\ \A m \in Earlier : CallsComplete(m))
    /\ [](pc = "send_reply" =>
              /\ DOMAIN mark_calls \subseteq Earlier \cup {messages[pos]}
              /\ messages[pos] \in DOMAIN mark_calls
              /\ DOMAIN reply_calls \subseteq Earlier)
    /\ [][(pc = "mark_read" /\ pc' # "sigint") =>
              /\ last_call.op = "forward" /\ last_call.ok
              /\ last_call'.op = "mark_read"
              /\ last_call'.msg = last_call.msg]_vars
    /\ [][(pc = "send_reply" /\ pc' # "sigint") =>
              /\ last_call.op = "mark_read"
              /\ last_call'.op = "reply"
              /\ last_call'.msg = last_call.msg]_vars
    /\ [][(pc = "forward" /\ pc' \notin {"sigint", "IndexError"}) =>
              /\ last_call'.op = "forward"
              /\ last_call'.msg = messages[pos]
              /\ IF pos = 1 THEN last_call.op = "list"
                 ELSE last_call.msg = messages[pos - 1]]_vars
C18_Witness ==
    /\ pc = "mark_read"
    /\ messages = <<3, 2, 1>>
    /\ pos = 3
    /\ DOMAIN reply_calls = {2}
    /\ DOMAIN mark_calls = {2}
    /\ ~forward_calls[3].ok

\* how far the loop has got: three steps at most per message
Progress ==
    3 * pos + (CASE pc = "forward" -> 0
                 [] pc = "mark_read" -> 1
                 [] OTHER -> 2)

C20_SecondForward ==
    /\ [][(pc = "forward" /\ last_call'.op = "forward" /\ last_call'.ok
           /\ last_call'.msg \in forwarded) =>
              last_call'.msg \in unmarked]_vars
    /\ [](pc = "forward" => messages[pos] \in unread)

\* C20 without a process ending between a forward and its mark-read: what
\* is left of the claim when every forward is followed by its mark-read
\* call.
C20_SecondForwardMarked ==
    /\ [](pc = "forward" => messages[pos] \in unread)
    /\ [](unmarked \subseteq forwarded \cap unread)
    /\ [](restarts = 0 =>
              (pc = "forward" => forwarded \cap unread = unmarked))

\* C21: the index file changes only in the step that ends a cycle, and that
\* step is taken only when every message of the batch has had its forward
\* attempt; a SIGINT during the fetch or the batch leaves the file as it
\* is, so that it holds what it held when the cycle began: in the first
\* cycle the file found at the start, and in any cycle the cursor the
\* cycle read from it (or the 0 of a failed read), whatever the forwards
\* made since.
C21_WrittenAtCycleEnd ==
    /\ [][indexFile' # indexFile =>
              (pc = "store_index" /\ pc' = "sleep")]_vars
    /\ [](Returned => DOMAIN forward_calls = Batch)
    /\ [][(pc \in InCycle /\ pc' = "sigint") => UNCHANGED indexFile]_vars
    /\ [](pc \in InCycle =>
              start_index \in {0, LoadedIndex(indexFile, TRUE)})
    /\ []((now = 0 /\ restarts = 0
            /\ pc \in {"top", "load_index"} \cup InCycle) =>
              indexFile \in InitialFiles)
C21_Witness ==
    /\ pc = "sigint"
    /\ now = 0
    /\ restarts = 0
    /\ indexFile = FileWith(<<"-", "1", "\n">>)
    /\ Cardinality(forwarded) = 2
    /\ \E m \in forwarded \cap unread : m \notin unmarked

\* ------------------------------------------------- delivery, without an end
\* line 274 past the last instant counted: the loop goes round as before,
\* the clock reading stays at MaxTime
SleepOn ==
    /\ pc = "sleep"
    /\ now + POLL_INTERVAL * 60 > MaxTime
    /\ pc' = "top"
    /\ UNCHANGED <<config, now, indexFile, mailbox, renew_token_at,
                   access_token, locals, calls, ghosts, restarts>>

\* lines 260-274 with no SIGINT and no failed token request: what the loop
\* does by itself
LiveStep ==
    \/ RenewToken /\ pc' # "token_error"
    \/ KeepToken
    \/ LoadIndex
    \/ LoadMessages
    \/ SelectRecipientFails
    \/ ForwardMessage
    \/ MarkRead
    \/ SendReply
    \/ StoreIndex
    \/ Sleep
    \/ SleepOn

LiveNext ==
    \/ LiveStep
    \/ Arrive

\* the loop runs on (one thread, lines 260-274), and a fetch, a forward and
\* a mark-read that are tried again and again succeed again and again
LiveSpec ==
    /\ Init
    /\ [][LiveNext]_vars
    /\ WF_vars(LiveStep)
    /\ SF_vars(LoadMessages /\ last_call'.ok)
    /\ SF_vars(ForwardMessage /\ last_call'.ok)
    /\ SF_vars(MarkRead /\ last_call'.ok)

Delivered(m) == m \in forwarded /\ m \in 1..arrived /\ m \notin unread

\* C22: without SIGINT and without a failed token request, and with fetch,
\* forward and mark-read succeeding again and again, every message a fetch
\* has returned is eventually forwarded with success and marked read.
C22_EventuallyDelivered ==
    \A m \in 1..MaxMsgs : (pc \in InLoop /\ m \in Batch) ~> Delivered(m)

\* C22 for the runs in which line 218 never raises: a message a fetch has
\* returned is eventually delivered unless the process ends by IndexError.
C22_DeliveredOrIndexError ==
    \A m \in 1..MaxMsgs :
        (pc \in InLoop /\ m \in Batch) ~> (Delivered(m) \/ pc = "IndexError")
C22_Witness ==
    /\ pc = "IndexError"
    /\ unread = {1}
    /\ forwarded = {}
    /\ Len(FORWARD_TO) = 2
    /\ indexFile = FileWith(<<"2", "\n">>)

====
